---- MODULE Spec2Model ----
(***************************************************************************)
(* A model of the spdx-expression crate: the nom-based recursive-descent   *)
(* parser of src/parser.rs (Expression::parse), the older grammar of       *)
(* src/parse.rs behind the exported SPDXExpression::parse, and the         *)
(* state of one parse call.  Text is a sequence of one-character strings;  *)
(* a cursor is the 1-based index of the next unread character.             *)
(***************************************************************************)
EXTENDS Integers, Sequences, FiniteSets, TLC

(***************************************************************************)
(* Characters                                                              *)
(***************************************************************************)
UpperCase == <<"A","B","C","D","E","F","G","H","I","J","K","L","M",
               "N","O","P","Q","R","S","T","U","V","W","X","Y","Z">>

LowerCase == <<"a","b","c","d","e","f","g","h","i","j","k","l","m",
               "n","o","p","q","r","s","t","u","v","w","x","y","z">>

DecDigit == {"0","1","2","3","4","5","6","7","8","9"}

Range(f) == {f[k] : k \in DOMAIN f}

AsciiAlphanumeric == Range(UpperCase) \cup Range(LowerCase) \cup DecDigit

\* nom: AsChar::is_alphanum for char (ASCII letters and digits)
is_alphanum(c) == c \in AsciiAlphanumeric

\* the predicate of take_while1 in idstring
IsIdChar(c) == is_alphanum(c) \/ c = "-" \/ c = "."

\* nom: multispace0 / multispace1 accept space, tab, line feed, carriage return
IsMultispace(c) == c \in {" ", "\t", "\n", "\r"}

\* nom: space1 accepts space and tab
IsSpace(c) == c \in {" ", "\t"}

\* the lower-case letter of each upper-case letter
Lowered ==
    [c \in Range(UpperCase) |->
        LowerCase[CHOOSE k \in DOMAIN UpperCase : UpperCase[k] = c]]

\* char::to_lowercase on the characters of the model
to_lowercase(c) == IF c \in DOMAIN Lowered THEN Lowered[c] ELSE c

(***************************************************************************)
(* nom results: IResult is Ok((rest, value)), Err(Error) or                *)
(* Err(Incomplete); Option is a sequence of length at most one.            *)
(***************************************************************************)
Ok(p, v) == [kind |-> "Ok", pos |-> p, val |-> v]

Error == [kind |-> "Error"]

Incomplete == [kind |-> "Incomplete"]

None == <<>>

Some(x) == <<x>>

\* combinator::complete: Incomplete becomes Error
complete(r) == IF r.kind = "Incomplete" THEN Error ELSE r

\* combinator::opt at cursor i: Error becomes Ok(None), anything else is kept
opt(r, i) ==
    IF r.kind = "Error" THEN Ok(i, None)
    ELSE IF r.kind = "Ok" THEN Ok(r.pos, Some(r.val))
    ELSE r

\* the `?` of Rust and the sequence combinators (pair, tuple, delimited,
\* preceded, separated_pair): on Ok the rest of the sequence, written ##,
\* runs on the new cursor and the value; a failure is returned
and_then(r, _ ## _) == IF r.kind = "Ok" THEN r.pos ## r.val ELSE r

\* branch::alt: the next alternative runs on Error only
alt(r, other) == IF r.kind = "Error" THEN other ELSE r

\* one round of multi::many0 on the result of its parser at cursor i: an
\* Error ends the repetition with what was collected, another failure is
\* returned, and on Ok the next round, written ##, runs
many0(item, i, acc, _ ## _) ==
    IF item.kind = "Error" THEN Ok(i, acc)
    ELSE IF item.kind # "Ok" THEN item
    ELSE item.pos ## item.val

\* bytes::complete::tag
tag(t, s, i) ==
    IF i + Len(t) - 1 <= Len(s) /\ SubSeq(s, i, i + Len(t) - 1) = t
    THEN Ok(i + Len(t), t)
    ELSE Error

\* tag_no_case that compares the characters as written
tag_no_case_exact(t, s, i) == tag(t, s, i)

\* bytes::complete::tag_no_case
tag_no_case(t, s, i) ==
    IF /\ i + Len(t) - 1 <= Len(s)
       /\ \A k \in 1..Len(t) : to_lowercase(s[i + k - 1]) = to_lowercase(t[k])
    THEN Ok(i + Len(t), SubSeq(s, i, i + Len(t) - 1))
    ELSE Error

\* character::streaming::char: needs one character to decide
char(c, s, i) ==
    IF i > Len(s) THEN Incomplete
    ELSE IF s[i] = c THEN Ok(i + 1, c)
    ELSE Error

RECURSIVE SkipMultispace(_, _)
\* the cursor after the longest run of whitespace starting at i
SkipMultispace(s, i) ==
    IF i <= Len(s) /\ IsMultispace(s[i]) THEN SkipMultispace(s, i + 1) ELSE i

\* character::complete::multispace0
multispace0(s, i) == Ok(SkipMultispace(s, i), SubSeq(s, i, SkipMultispace(s, i) - 1))

\* character::complete::multispace1
multispace1(s, i) ==
    IF SkipMultispace(s, i) = i THEN Error ELSE multispace0(s, i)

RECURSIVE SkipIdChars(_, _)
\* the cursor after the longest run of identifier characters starting at i
SkipIdChars(s, i) ==
    IF i <= Len(s) /\ IsIdChar(s[i]) THEN SkipIdChars(s, i + 1) ELSE i

(***************************************************************************)
(* Lexical recognizers (src/parser.rs; src/parse.rs has the same ones)     *)
(***************************************************************************)
idstring(s, i) ==
    IF SkipIdChars(s, i) = i THEN Error
    ELSE Ok(SkipIdChars(s, i), SubSeq(s, i, SkipIdChars(s, i) - 1))

license_idstring(s, i) ==
    and_then(idstring(s, i), LAMBDA j, id :
    and_then(opt(complete(char("+", s, j)), j), LAMBDA k, plus :
    Ok(k, SubSeq(s, i, k - 1))))

W_DocumentRef == <<"D","o","c","u","m","e","n","t","R","e","f","-">>

W_LicenseRef == <<"L","i","c","e","n","s","e","R","e","f","-">>

document_ref(s, i) ==
    and_then(tag(W_DocumentRef, s, i), LAMBDA j, t :
    and_then(idstring(s, j), LAMBDA k, id :
    and_then(char(":", s, k), LAMBDA n, c :
    Ok(n, id))))

\* license_ref reading its identifier with license_idstring: a '+' is taken in
license_ref_or_later(s, i) ==
    and_then(opt(document_ref(s, i), i), LAMBDA j, d :
    and_then(tag(W_LicenseRef, s, j), LAMBDA k, t :
    and_then(license_idstring(s, k), LAMBDA n, id :
    Ok(n, <<d, id>>))))

license_ref(s, i) ==
    and_then(opt(document_ref(s, i), i), LAMBDA j, d :
    and_then(tag(W_LicenseRef, s, j), LAMBDA k, t :
    and_then(idstring(s, k), LAMBDA n, id :
    Ok(n, <<d, id>>))))

\* SimpleExpression::new
SimpleExpression(identifier, docref, licref) ==
    [identifier |-> identifier, document_ref |-> docref, license_ref |-> licref]

simple_license_expression(s, i) ==
    alt(and_then(license_ref(s, i), LAMBDA j, v :
            Ok(j, SimpleExpression(v[2], v[1], TRUE))),
        and_then(license_idstring(s, i), LAMBDA j, id :
            Ok(j, SimpleExpression(id, None, FALSE))))

(***************************************************************************)
(* The AST of src/parser.rs                                                *)
(***************************************************************************)
Simple(e) == [t |-> "Simple", simple |-> e]

\* WithExpression::new inside Expression::With
With(lic, exc) == [t |-> "With", license |-> lic, exception |-> exc]

And(l, r) == [t |-> "And", left |-> l, right |-> r]

Or(l, r) == [t |-> "Or", left |-> l, right |-> r]

Parens(e) == [t |-> "Parens", inner |-> e]

(***************************************************************************)
(* The expression grammar of src/parser.rs                                 *)
(***************************************************************************)
W_WITH == <<"W","I","T","H">>

W_AND == <<"A","N","D">>

W_OR == <<"O","R">>

RECURSIVE expr(_, _)

\* parens returning the tree of the inner expression as it is
parens_unwrapped(s, i) ==
    and_then(multispace0(s, i), LAMBDA j, a :
    and_then(tag(<<"(">>, s, j), LAMBDA k, o :
    and_then(expr(s, k), LAMBDA n, e :
    and_then(tag(<<")">>, s, n), LAMBDA m, c :
    and_then(multispace0(s, m), LAMBDA q, b :
    Ok(q, e))))))

parens(s, i) ==
    and_then(multispace0(s, i), LAMBDA j, a :
    and_then(tag(<<"(">>, s, j), LAMBDA k, o :
    and_then(expr(s, k), LAMBDA n, e :
    and_then(tag(<<")">>, s, n), LAMBDA m, c :
    and_then(multispace0(s, m), LAMBDA q, b :
    Ok(q, Parens(e)))))))

with_expression(s, i) ==
    and_then(simple_license_expression(s, i), LAMBDA j, lic :
    and_then(multispace1(s, j), LAMBDA k, w1 :
    and_then(tag_no_case(W_WITH, s, k), LAMBDA n, kw :
    and_then(multispace1(s, n), LAMBDA m, w2 :
    and_then(idstring(s, m), LAMBDA q, exc :
    Ok(q, With(lic, exc)))))))

factor(s, i) ==
    alt(and_then(multispace0(s, i), LAMBDA j, a :
        and_then(with_expression(s, j), LAMBDA k, w :
        and_then(multispace0(s, k), LAMBDA n, b :
        Ok(n, w)))),
    alt(and_then(multispace0(s, i), LAMBDA j, a :
        and_then(simple_license_expression(s, j), LAMBDA k, sl :
        and_then(multispace0(s, k), LAMBDA n, b :
        Ok(n, Simple(sl))))),
        parens(s, i)))

RECURSIVE fold_exprs_right(_, _)
\* fold_exprs folding from the right: the operands nest to the right
fold_exprs_right(initial, remainder) ==
    IF remainder = <<>> THEN initial
    ELSE IF Head(remainder)[1] = "And"
    THEN And(initial, fold_exprs_right(Head(remainder)[2], Tail(remainder)))
    ELSE Or(initial, fold_exprs_right(Head(remainder)[2], Tail(remainder)))

RECURSIVE fold_exprs(_, _)
fold_exprs(initial, remainder) ==
    IF remainder = <<>> THEN initial
    ELSE fold_exprs(IF Head(remainder)[1] = "And"
                    THEN And(initial, Head(remainder)[2])
                    ELSE Or(initial, Head(remainder)[2]),
                    Tail(remainder))

RECURSIVE term_many0_expr(_, _, _)
\* term_many0 reading a whole expr, not a factor, after "AND"
term_many0_expr(s, i, acc) ==
    many0(and_then(tag_no_case(W_AND, s, i), LAMBDA j, kw : expr(s, j)),
          i, acc,
          LAMBDA k, f : term_many0_expr(s, k, Append(acc, <<"And", f>>)))

RECURSIVE term_many0(_, _, _)
\* many0 over the closure of term: "AND" then a factor, collected in acc
term_many0(s, i, acc) ==
    many0(and_then(tag_no_case(W_AND, s, i), LAMBDA j, kw : factor(s, j)),
          i, acc,
          LAMBDA k, f : term_many0(s, k, Append(acc, <<"And", f>>)))

term(s, i) ==
    and_then(factor(s, i), LAMBDA j, initial :
    and_then(term_many0(s, j, <<>>), LAMBDA k, remainder :
    Ok(k, fold_exprs(initial, remainder))))

RECURSIVE expr_many0_factor(_, _, _)
\* expr_many0 reading a factor, not a term, after "OR"
expr_many0_factor(s, i, acc) ==
    many0(and_then(tag_no_case(W_OR, s, i), LAMBDA j, kw : factor(s, j)),
          i, acc,
          LAMBDA k, f : expr_many0_factor(s, k, Append(acc, <<"Or", f>>)))

RECURSIVE expr_many0(_, _, _)
\* many0 over the closure of expr: "OR" then a term, collected in acc
expr_many0(s, i, acc) ==
    many0(and_then(tag_no_case(W_OR, s, i), LAMBDA j, kw : term(s, j)),
          i, acc,
          LAMBDA k, f : expr_many0(s, k, Append(acc, <<"Or", f>>)))

expr(s, i) ==
    and_then(term(s, i), LAMBDA j, initial :
    and_then(expr_many0(s, j, <<>>), LAMBDA k, remainder :
    Ok(k, fold_exprs(initial, remainder))))

(***************************************************************************)
(* Expression::parse: Finish::finish panics on Incomplete                  *)
(***************************************************************************)
ParseOk(tree) == [kind |-> "Ok", tree |-> tree]

\* Err(SpdxExpressionError::Parse(text))
ParseErr(text) == [kind |-> "Err", parse |-> text]

Panic == [kind |-> "Panic"]

\* the outcome of Expression::parse on the text s, r being the result of
\* expr on it and remaining_is_empty the outcome of the test on the rest
Returned(r, s, remaining_is_empty) ==
    IF r.kind = "Incomplete" THEN Panic
    ELSE IF r.kind = "Error" THEN ParseErr(s)
    ELSE IF remaining_is_empty THEN ParseOk(r.val)
    ELSE ParseErr(s)

\* Expression::parse without the check that nothing remains
Expression_parse_prefix(s) == Returned(expr(s, 1), s, TRUE)

Expression_parse(s) == Returned(expr(s, 1), s, expr(s, 1).pos > Len(s))

(***************************************************************************)
(* The older grammar of src/parse.rs, which SPDXExpression::parse calls.   *)
(* Its tree (src/inner_variant.rs) has no Parens node.  A recognizer that  *)
(* is entered again at the cursor where it is already running never        *)
(* returns: the call stack overflows, which is the outcome Overflow here;  *)
(* `act` is the set of recognizers running at the current cursor.          *)
(***************************************************************************)
Overflow == [kind |-> "Overflow"]

ExpressionVariant_simple(identifier, docref, licref) ==
    [t |-> "Simple", simple |-> SimpleExpression(identifier, docref, licref)]

\* CompoundExpression::new
CompoundExpression(l, operator, r) ==
    [t |-> "Compound", left |-> l, operator |-> operator, right |-> r]

ExpressionVariant_and(l, r) == CompoundExpression(l, "And", r)

ExpressionVariant_or(l, r) == CompoundExpression(l, "Or", r)

ExpressionVariant_with(lic, exc) == [t |-> "With", license |-> lic, exception |-> exc]

\* ws(inner), delimited(multispace0, inner, multispace0): r is the result of
\* inner at the cursor after the leading whitespace
ws(s, r) ==
    and_then(r, LAMBDA j, v :
    and_then(multispace0(s, j), LAMBDA k, b :
    Ok(k, v)))

RECURSIVE SkipSpace(_, _)
\* the cursor after the longest run of spaces and tabs starting at i
SkipSpace(s, i) ==
    IF i <= Len(s) /\ IsSpace(s[i]) THEN SkipSpace(s, i + 1) ELSE i

\* character::complete::space1
space1(s, i) ==
    IF SkipSpace(s, i) = i THEN Error
    ELSE Ok(SkipSpace(s, i), SubSeq(s, i, SkipSpace(s, i) - 1))

\* alt((tag("WITH"), tag("with")))
with(s, i) == alt(tag(W_WITH, s, i), tag(<<"w","i","t","h">>, s, i))

\* alt((tag("AND"), tag("and")))
and(s, i) == alt(tag(W_AND, s, i), tag(<<"a","n","d">>, s, i))

\* alt((tag("OR"), tag("or")))
or(s, i) == alt(tag(W_OR, s, i), tag(<<"o","r">>, s, i))

simple_expression(s, i) ==
    alt(and_then(license_ref(s, i), LAMBDA j, v :
            Ok(j, ExpressionVariant_simple(v[2], v[1], TRUE))),
        and_then(license_idstring(s, i), LAMBDA j, id :
            Ok(j, ExpressionVariant_simple(id, None, FALSE))))

\* with_expression of src/parse.rs
parse_with_expression(s, i) ==
    and_then(simple_license_expression(s, i), LAMBDA j, lic :
    and_then(space1(s, j), LAMBDA k, w1 :
    and_then(with(s, k), LAMBDA n, kw :
    and_then(space1(s, n), LAMBDA m, w2 :
    and_then(idstring(s, m), LAMBDA q, exc :
    Ok(q, ExpressionVariant_with(lic, exc)))))))

\* the recognizers running at cursor j when `name`, running at cursor i
\* with act, calls another recognizer there
Running(act, name, i, j) == IF j = i THEN act \cup {<<name, i>>} ELSE {}

RECURSIVE and_expression(_, _, _)
RECURSIVE or_expression(_, _, _)
RECURSIVE parentheses(_, _)

and_expression(s, i, act) ==
    IF <<"and_expression", i>> \in act THEN Overflow
    ELSE
    and_then(alt(parentheses(s, i),
             alt(simple_expression(s, i),
             alt(ws(s, or_expression(s, SkipMultispace(s, i),
                        Running(act, "and_expression", i, SkipMultispace(s, i)))),
                 ws(s, parse_with_expression(s, SkipMultispace(s, i)))))),
             LAMBDA j, left :
    and_then(ws(s, and(s, SkipMultispace(s, j))), LAMBDA k, kw :
    and_then(alt(ws(s, parentheses(s, SkipMultispace(s, k))),
             alt(ws(s, and_expression(s, SkipMultispace(s, k), {})),
             alt(ws(s, or_expression(s, SkipMultispace(s, k), {})),
             alt(ws(s, parse_with_expression(s, SkipMultispace(s, k))),
                 ws(s, simple_expression(s, SkipMultispace(s, k))))))),
             LAMBDA n, right :
    Ok(n, ExpressionVariant_and(left, right)))))

parentheses(s, i) ==
    and_then(char("(", s, i), LAMBDA j, o :
    and_then(alt(parentheses(s, j),
             alt(and_expression(s, j, {}),
             alt(or_expression(s, j, {}),
             alt(parse_with_expression(s, j),
                 simple_expression(s, j))))),
             LAMBDA k, e :
    and_then(char(")", s, k), LAMBDA n, c :
    Ok(n, e))))

or_expression(s, i, act) ==
    IF <<"or_expression", i>> \in act THEN Overflow
    ELSE
    and_then(alt(ws(s, parentheses(s, SkipMultispace(s, i))),
             alt(ws(s, and_expression(s, SkipMultispace(s, i),
                        Running(act, "or_expression", i, SkipMultispace(s, i)))),
             alt(ws(s, parse_with_expression(s, SkipMultispace(s, i))),
                 ws(s, simple_expression(s, SkipMultispace(s, i)))))),
             LAMBDA j, left :
    and_then(ws(s, or(s, SkipMultispace(s, j))), LAMBDA k, kw :
    and_then(alt(ws(s, parentheses(s, SkipMultispace(s, k))),
             alt(ws(s, and_expression(s, SkipMultispace(s, k), {})),
             alt(ws(s, or_expression(s, SkipMultispace(s, k), {})),
                 ws(s, simple_expression(s, SkipMultispace(s, k)))))),
             LAMBDA n, right :
    Ok(n, ExpressionVariant_or(left, right)))))

spdx_expression(s, i) ==
    alt(ws(s, parentheses(s, SkipMultispace(s, i))),
    alt(ws(s, and_expression(s, SkipMultispace(s, i), {})),
    alt(ws(s, or_expression(s, SkipMultispace(s, i), {})),
        ws(s, simple_expression(s, SkipMultispace(s, i))))))

(***************************************************************************)
(* SPDXExpression::parse (src/expression.rs): unwrap() of the inner result *)
(* panics on every Err; the rest of the input is dropped unread            *)
(***************************************************************************)
SPDXExpression(text, inner) ==
    [kind |-> "Ok", expression_string |-> text, inner |-> inner]

StackOverflow == [kind |-> "StackOverflow"]

\* Result::unwrap on the outcome r of spdx_expression on the text s
unwrap(r, s) ==
    IF r.kind = "Ok" THEN SPDXExpression(s, r.val)
    ELSE IF r.kind = "Overflow" THEN StackOverflow
    ELSE Panic

SPDXExpression_parse(s) == unwrap(spdx_expression(s, 1), s)

(***************************************************************************)
(* The caller's text.  A draft is a stack of item sequences, the innermost *)
(* open parenthesis group last; an item is a piece of raw text, an atom,   *)
(* an operator as spelled (keyword, case and surrounding whitespace), or a *)
(* closed parenthesis group.                                               *)
(***************************************************************************)
Raw(w) == [k |-> "raw", w |-> w]

Atom(w) == [k |-> "atom", w |-> w]

Operator(kw, w) == [k |-> "op", kw |-> kw, w |-> w]

Group(items, pad) == [k |-> "group", items |-> items, pad |-> pad]

RECURSIVE Text(_)
\* the characters of a sequence of items
Text(items) ==
    IF items = <<>> THEN <<>>
    ELSE LET it == Head(items) IN
         (IF it.k = "group"
          THEN <<"(">> \o it.pad \o Text(it.items) \o it.pad \o <<")">>
          ELSE it.w) \o Text(Tail(items))

RECURSIVE Size(_)
\* the number of items in a sequence of items, each group and its items included
Size(items) ==
    IF items = <<>> THEN 0
    ELSE LET it == Head(items) IN
         (IF it.k = "group" THEN 1 + Size(it.items) ELSE 1) + Size(Tail(items))

RECURSIVE SizeOfDraft(_)
\* the items of a draft, each open group counted as one
SizeOfDraft(d) ==
    IF d = <<>> THEN 0 ELSE 1 + Size(Head(d)) + SizeOfDraft(Tail(d))

VARIABLES draft, pc, result

vars == <<draft, pc, result>>

\* the innermost open level of the draft
Top == draft[Len(draft)]

\* an operand may come next: at the start of a level or after an operator
WantsOperand == IF Top = <<>> THEN TRUE ELSE Top[Len(Top)].k = "op"

NoResult == [kind |-> "None"]

Init ==
    /\ draft = << <<>> >>
    /\ pc = "compose"
    /\ result = NoResult

PutItem(it) == draft' = [draft EXCEPT ![Len(draft)] = Append(@, it)]

(***************************************************************************)
(* Bounds of the composed texts                                            *)
(***************************************************************************)
MaxPieces == 4

MaxItems == 7

\* the caller appends a piece of arbitrary text
AppendRaw(w) ==
    /\ pc = "compose"
    /\ Len(Top) < MaxPieces
    /\ PutItem(Raw(w))
    /\ UNCHANGED <<pc, result>>

\* the caller writes an atom where an operand may stand
AppendOperand(w) ==
    /\ pc = "compose"
    /\ WantsOperand
    /\ SizeOfDraft(draft) <= MaxItems
    /\ PutItem(Atom(w))
    /\ UNCHANGED <<pc, result>>

\* the caller writes an operator after an operand
AppendOperator(o) ==
    /\ pc = "compose"
    /\ ~WantsOperand
    /\ SizeOfDraft(draft) < MaxItems
    /\ PutItem(o)
    /\ UNCHANGED <<pc, result>>

\* the caller opens a parenthesis where an operand may stand
Open ==
    /\ pc = "compose"
    /\ WantsOperand
    /\ SizeOfDraft(draft) < MaxItems
    /\ draft' = Append(draft, <<>>)
    /\ UNCHANGED <<pc, result>>

\* the caller closes the innermost parenthesis after an operand
Close(pad) ==
    /\ pc = "compose"
    /\ Len(draft) > 1
    /\ ~WantsOperand
    /\ draft' = [k \in 1..(Len(draft) - 1) |->
                   IF k = Len(draft) - 1
                   THEN Append(draft[k], Group(Top, pad))
                   ELSE draft[k]]
    /\ UNCHANGED <<pc, result>>

\* the text handed to the parser
input == Text(draft[1])

\* a call of Expression::parse on the composed text
Call_Expression_parse ==
    /\ pc = "compose"
    /\ Len(draft) = 1
    /\ pc' = "returned"
    /\ result' = Expression_parse(input)
    /\ UNCHANGED draft

\* a call of SPDXExpression::parse on the composed text
Call_SPDXExpression_parse ==
    /\ pc = "compose"
    /\ Len(draft) = 1
    /\ pc' = "returned"
    /\ result' = SPDXExpression_parse(input)
    /\ UNCHANGED draft

(***************************************************************************)
(* Arbitrary text: pieces in any order                                     *)
(***************************************************************************)
Pieces ==
    { <<"A">>, <<"+">>, <<" ">>, <<"(">>, <<")">>, <<"/">>, <<":">>,
      W_AND, W_WITH, W_DocumentRef, W_LicenseRef }

Next == (\E w \in Pieces : AppendRaw(w)) \/ Call_Expression_parse

Spec == Init /\ [][Next]_vars

\* the same texts handed to the exported entry point
NextFacade == (\E w \in Pieces : AppendRaw(w)) \/ Call_SPDXExpression_parse

SpecFacade == Init /\ [][NextFacade]_vars

\* the grammar of Expression::parse matched and nothing but skipped whitespace is left
MatchedAll(s) == expr(s, 1).kind = "Ok" /\ expr(s, 1).pos > Len(s)

\* C1: Expression::parse never faults: every call returns Ok(tree) or
\* Err(Parse(..)), whatever the text; no recognizer outcome ends in a panic.
C1_NeverFaults == pc = "returned" => result.kind \in {"Ok", "Err"}

\* C2: Expression::parse is all-or-nothing: it returns Ok only if the grammar
\* matched and no text remains, and in every other case it returns
\* Err(Parse(s)) with s the whole original text.
C2_AllOrNothing ==
    pc = "returned" =>
        /\ result.kind = "Ok" => MatchedAll(input)
        /\ ~MatchedAll(input) => result = ParseErr(input)

\* C3: SPDXExpression::parse is all-or-nothing: it returns Ok only when its
\* grammar consumed the whole text, and for every other text it returns
\* Err(Parse(text)); it neither panics nor accepts a matched prefix.
C3_FacadeAllOrNothing ==
    pc = "returned" =>
        /\ result.kind = "Ok" =>
               /\ spdx_expression(input, 1).kind = "Ok"
               /\ spdx_expression(input, 1).pos > Len(input)
        /\ result.kind # "Ok" => result = ParseErr(input)

(***************************************************************************)
(* Composed expressions: operands and operators in turn, with groups       *)
(***************************************************************************)
Keyword(kw) == IF kw = "AND" THEN W_AND ELSE IF kw = "OR" THEN W_OR ELSE W_WITH

\* the keyword in upper case with one space on each side
Spaced(kw) == Operator(kw, <<" ">> \o Keyword(kw) \o <<" ">>)

GrammarAtoms == { <<"A">>, <<"b", "+">>, W_LicenseRef \o <<"x">> }

GrammarOperators == { Spaced("AND"), Spaced("OR"), Spaced("WITH") }

NextGrammar ==
    \/ \E w \in GrammarAtoms : AppendOperand(w)
    \/ \E o \in GrammarOperators : AppendOperator(o)
    \/ Open
    \/ Close(<<>>)
    \/ Call_Expression_parse

SpecGrammar == Init /\ [][NextGrammar]_vars

(***************************************************************************)
(* What the grammar of the specification says of a composed expression     *)
(***************************************************************************)
\* operands and operators in turn, an operand first and last
Alternating(items) ==
    /\ Len(items) % 2 = 1
    /\ \A k \in 1..Len(items) :
           IF k % 2 = 1 THEN items[k].k \in {"atom", "group"} ELSE items[k].k = "op"

HasPrefix(w, p) == Len(w) >= Len(p) /\ SubSeq(w, 1, Len(p)) = p

\* a bare identifier: identifier characters only, and no reference prefix
BareId(w) ==
    /\ w # <<>>
    /\ \A k \in 1..Len(w) : IsIdChar(w[k])
    /\ ~HasPrefix(w, W_LicenseRef)
    /\ ~HasPrefix(w, W_DocumentRef)

\* the leaf an atom of the vocabulary stands for
AtomNode(w) ==
    IF HasPrefix(w, W_LicenseRef)
    THEN SimpleExpression(SubSeq(w, Len(W_LicenseRef) + 1, Len(w)), None, TRUE)
    ELSE SimpleExpression(w, None, FALSE)

\* the index of the last operator kw of items, 0 when there is none
LastOp(items, kw) ==
    LET at == {k \in 1..Len(items) : items[k].k = "op" /\ items[k].kw = kw} IN
    IF at = {} THEN 0 ELSE CHOOSE k \in at : \A j \in at : j <= k

RECURSIVE Wellformed(_)
\* every WITH joins an atom to a bare identifier and is not chained
Wellformed(items) ==
    /\ Alternating(items)
    /\ \A k \in 1..Len(items) :
           /\ items[k].k = "group" => Wellformed(items[k].items)
           /\ (items[k].k = "op" /\ items[k].kw = "WITH") =>
                  /\ items[k - 1].k = "atom"
                  /\ items[k + 1].k = "atom"
                  /\ BareId(items[k + 1].w)
                  /\ k + 2 <= Len(items) => items[k + 2].kw # "WITH"

RECURSIVE ExpectedTree(_)
\* the tree by binding strength: split at the last OR, else at the last AND,
\* else the piece is an operand or a WITH pair
ExpectedTree(items) ==
    LET o == LastOp(items, "OR")
        a == LastOp(items, "AND")
        n == Len(items)
    IN
    IF o > 0 THEN Or(ExpectedTree(SubSeq(items, 1, o - 1)),
                     ExpectedTree(SubSeq(items, o + 1, n)))
    ELSE IF a > 0 THEN And(ExpectedTree(SubSeq(items, 1, a - 1)),
                          ExpectedTree(SubSeq(items, a + 1, n)))
    ELSE IF n = 1 /\ items[1].k = "group" THEN Parens(ExpectedTree(items[1].items))
    ELSE IF n = 1 THEN Simple(AtomNode(items[1].w))
    ELSE With(AtomNode(items[1].w), items[3].w)

RECURSIVE LeftTree(_, _)
\* the left-leaning tree of the atoms xs under one operator
LeftTree(kw, xs) ==
    IF Len(xs) = 1 THEN Simple(AtomNode(xs[1]))
    ELSE LET l == LeftTree(kw, SubSeq(xs, 1, Len(xs) - 1))
             r == Simple(AtomNode(xs[Len(xs)]))
         IN IF kw = "AND" THEN And(l, r) ELSE Or(l, r)

\* items is x1 kw x2 kw ... kw xn, n >= 2, all operands atoms
Chain(items, kw) ==
    /\ Alternating(items)
    /\ Len(items) >= 3
    /\ \A k \in 1..Len(items) :
           IF k % 2 = 1 THEN items[k].k = "atom" ELSE items[k].kw = kw

OperandsOf(items) == [k \in 1..((Len(items) + 1) \div 2) |-> items[2 * k - 1].w]

\* C4: AND and OR are left-associative: x1 AND x2 AND ... AND xn parses to
\* the left-leaning And tree, the same with OR to the left-leaning Or tree,
\* the right child of each node being the last operand parsed.
C4_LeftAssociative ==
    pc = "returned" =>
        \A kw \in {"AND", "OR"} :
            Chain(draft[1], kw) =>
                result = ParseOk(LeftTree(kw, OperandsOf(draft[1])))

C4_Witness ==
    /\ pc = "returned"
    /\ Chain(draft[1], "AND")
    /\ Len(draft[1]) = 5
    /\ result.kind = "Ok"
    /\ result.tree.t = "And"
    /\ result.tree.left.t = "And"
    /\ result.tree.right.t = "Simple"

\* C5: precedence WITH > AND > OR: a well-formed expression parses to the
\* tree that splits at OR first, then at AND, then at WITH, and a
\* parenthesized group is one operand, kept as a Parens node.
C5_Precedence ==
    (pc = "returned" /\ Wellformed(draft[1])) =>
        result = ParseOk(ExpectedTree(draft[1]))

C5_Witness ==
    /\ pc = "returned"
    /\ Wellformed(draft[1])
    /\ Len(draft[1]) = 5
    /\ draft[1][1].k = "atom"
    /\ draft[1][2].kw = "OR"
    /\ draft[1][4].kw = "AND"
    /\ result.kind = "Ok"
    /\ result.tree.t = "Or"
    /\ result.tree.right.t = "And"

RECURSIVE WithMisuse(_)
\* a WITH stands after a group, or after the exception of another WITH
WithMisuse(items) ==
    \E k \in 1..Len(items) :
        \/ items[k].k = "group" /\ WithMisuse(items[k].items)
        \/ /\ items[k].k = "op"
           /\ items[k].kw = "WITH"
           /\ \/ items[k - 1].k = "group"
              \/ k >= 3 /\ items[k - 2].kw = "WITH"

RECURSIVE WithLicensesSimple(_)
\* every With node of the tree holds a SimpleExpression as its license
WithLicensesSimple(tree) ==
    IF tree.t = "With"
    THEN DOMAIN tree.license = {"identifier", "document_ref", "license_ref"}
    ELSE IF tree.t \in {"And", "Or"}
    THEN WithLicensesSimple(tree.left) /\ WithLicensesSimple(tree.right)
    ELSE IF tree.t = "Parens" THEN WithLicensesSimple(tree.inner)
    ELSE TRUE

\* C6: the license operand of WITH is a single atom: a WITH after a group,
\* or chained after another WITH, makes the parse an Err, and every With
\* node of a returned tree holds a SimpleExpression.
C6_WithNeedsAtom ==
    pc = "returned" =>
        /\ (Alternating(draft[1]) /\ WithMisuse(draft[1])) => result.kind = "Err"
        /\ result.kind = "Ok" => WithLicensesSimple(result.tree)

C6_Witness ==
    /\ pc = "returned"
    /\ Len(draft[1]) = 3
    /\ draft[1][1].k = "group"
    /\ draft[1][2].kw = "WITH"
    /\ result = ParseErr(input)

(***************************************************************************)
(* Atom forms: plain, or-later, references, and a document reference       *)
(* without its license reference                                           *)
(***************************************************************************)
AtomForms ==
    { <<"A">>,
      <<"b", "+">>,
      W_LicenseRef \o <<"x">>,
      W_DocumentRef \o <<"d", ":">> \o W_LicenseRef \o <<"x">>,
      W_DocumentRef \o <<"d">> }

NextAtoms ==
    \/ \E w \in AtomForms : AppendOperand(w)
    \/ \E o \in {Spaced("WITH"), Spaced("AND")} : AppendOperator(o)
    \/ Call_Expression_parse

SpecAtoms == Init /\ [][NextAtoms]_vars

\* the last character of a text, "" for the empty text
LastChar(w) == IF w = <<>> THEN "" ELSE w[Len(w)]

RECURSIVE ExceptionsOf(_)
\* the exception strings of the With nodes of a tree
ExceptionsOf(tree) ==
    IF tree.t = "With" THEN {tree.exception}
    ELSE IF tree.t \in {"And", "Or"}
    THEN ExceptionsOf(tree.left) \cup ExceptionsOf(tree.right)
    ELSE IF tree.t = "Parens" THEN ExceptionsOf(tree.inner)
    ELSE {}

\* the exception carries a trailing '+' or a reference prefix
Decorated(w) ==
    LastChar(w) = "+" \/ HasPrefix(w, W_LicenseRef) \/ HasPrefix(w, W_DocumentRef)

\* C7: the exception operand of WITH is a bare identifier: a WITH whose
\* exception ends in '+' or starts with LicenseRef- or DocumentRef- makes the
\* parse an Err, and no With node of a returned tree has such an exception.
C7_ExceptionIsBare ==
    pc = "returned" =>
        /\ \A k \in 1..Len(draft[1]) :
               (/\ Alternating(draft[1])
                /\ draft[1][k].k = "op"
                /\ draft[1][k].kw = "WITH"
                /\ Decorated(draft[1][k + 1].w)) => result.kind = "Err"
        /\ result.kind = "Ok" => \A e \in ExceptionsOf(result.tree) : ~Decorated(e)

\* an identifier, or an identifier and a trailing '+'
IdText(w, plus) ==
    /\ Len(w) > plus
    /\ \A k \in 1..(Len(w) - plus) : IsIdChar(w[k])
    /\ plus = 1 => LastChar(w) = "+"

\* LicenseRef-<id>
LicenseRefForm(w) ==
    HasPrefix(w, W_LicenseRef) /\ IdText(SubSeq(w, Len(W_LicenseRef) + 1, Len(w)), 0)

\* the index of the first ':' of a text, 0 when there is none
Colon(w) ==
    LET at == {k \in 1..Len(w) : w[k] = ":"} IN
    IF at = {} THEN 0 ELSE CHOOSE k \in at : \A j \in at : k <= j

\* DocumentRef-<doc>:LicenseRef-<id>
DocumentRefForm(w) ==
    /\ HasPrefix(w, W_DocumentRef)
    /\ Colon(w) > 0
    /\ IdText(SubSeq(w, Len(W_DocumentRef) + 1, Colon(w) - 1), 0)
    /\ LicenseRefForm(SubSeq(w, Colon(w) + 1, Len(w)))

\* the identifier part of an atom: the text without its trailing '+'
WithoutPlus(w) == IF LastChar(w) = "+" THEN SubSeq(w, 1, Len(w) - 1) ELSE w

\* any other <id> or <id>+: the identifier is not itself a reference
OtherForm(w) ==
    /\ IdText(w, 0) \/ IdText(w, 1)
    /\ ~LicenseRefForm(WithoutPlus(w))
    /\ ~DocumentRefForm(WithoutPlus(w))

\* the leaf the three atom forms stand for
FormNode(w) ==
    IF LicenseRefForm(w)
    THEN SimpleExpression(SubSeq(w, Len(W_LicenseRef) + 1, Len(w)), None, TRUE)
    ELSE IF DocumentRefForm(w)
    THEN SimpleExpression(SubSeq(w, Colon(w) + Len(W_LicenseRef) + 1, Len(w)),
                          Some(SubSeq(w, Len(W_DocumentRef) + 1, Colon(w) - 1)),
                          TRUE)
    ELSE SimpleExpression(w, None, FALSE)

\* C10: atom construction: LicenseRef-<id> and DocumentRef-<doc>:LicenseRef-<id>
\* give a reference leaf without the prefixes, any other <id> or <id>+ gives
\* a plain leaf holding the whole text, and the '+' stays on the license of
\* a WITH.
C10_AtomConstruction ==
    pc = "returned" =>
        /\ (/\ Len(draft[1]) = 1
            /\ draft[1][1].k = "atom"
            /\ \/ LicenseRefForm(draft[1][1].w)
               \/ DocumentRefForm(draft[1][1].w)
               \/ OtherForm(draft[1][1].w))
           => result = ParseOk(Simple(FormNode(draft[1][1].w)))
        /\ (/\ Len(draft[1]) = 3
            /\ Alternating(draft[1])
            /\ draft[1][2].kw = "WITH"
            /\ draft[1][1].k = "atom"
            /\ IdText(draft[1][1].w, 1)
            /\ OtherForm(draft[1][1].w)
            /\ draft[1][3].k = "atom"
            /\ BareId(draft[1][3].w))
           => result = ParseOk(With(FormNode(draft[1][1].w), draft[1][3].w))

(***************************************************************************)
(* Operators spelled with and without whitespace around the keyword        *)
(***************************************************************************)
Pads == { <<>>, <<" ">> }

SpacingOperators ==
    { Operator(kw, l \o Keyword(kw) \o r) : kw \in {"AND", "OR", "WITH"},
                                            l \in Pads, r \in Pads }

NextSpacing ==
    \/ AppendOperand(<<"A">>)
    \/ \E o \in SpacingOperators : AppendOperator(o)
    \/ Open
    \/ \E pad \in Pads : Close(pad)
    \/ Call_Expression_parse

SpecSpacing == Init /\ [][NextSpacing]_vars

RECURSIVE OperatorItems(_)
\* the operators written in a sequence of items, groups included
OperatorItems(items) ==
    IF items = <<>> THEN <<>>
    ELSE LET it == Head(items) IN
         (IF it.k = "group" THEN OperatorItems(it.items)
          ELSE IF it.k = "op" THEN <<it>> ELSE <<>>) \o OperatorItems(Tail(items))

RECURSIVE OperatorNodes(_)
\* the number of And, Or and With nodes of a tree
OperatorNodes(tree) ==
    IF tree.t = "With" THEN 1
    ELSE IF tree.t \in {"And", "Or"}
    THEN 1 + OperatorNodes(tree.left) + OperatorNodes(tree.right)
    ELSE IF tree.t = "Parens" THEN OperatorNodes(tree.inner)
    ELSE 0

\* whitespace stands on each side of the keyword
Padded(o) == IsMultispace(o.w[1]) /\ IsMultispace(o.w[Len(o.w)])

\* C8: whitespace is mandatory around AND, OR and WITH: when every keyword
\* written between the operands was read as an operator, each of them had
\* whitespace on both sides.
C8_KeywordsNeedWhitespace ==
    (/\ pc = "returned"
     /\ Alternating(draft[1])
     /\ result.kind = "Ok"
     /\ OperatorNodes(result.tree) = Len(OperatorItems(draft[1])))
    => \A k \in 1..Len(OperatorItems(draft[1])) : Padded(OperatorItems(draft[1])[k])

(***************************************************************************)
(* Operators spelled in upper, lower and mixed case                        *)
(***************************************************************************)
CaseSpellings ==
    { <<"AND", <<"a","n","d">> >>, <<"AND", <<"a","N","d">> >>,
      <<"OR", <<"o","r">> >>, <<"OR", <<"O","r">> >>,
      <<"WITH", <<"w","i","t","h">> >>, <<"WITH", <<"w","i","T","h">> >> }

CaseOperators == { Operator(sp[1], <<" ">> \o sp[2] \o <<" ">>) : sp \in CaseSpellings }

CaseAtoms == { <<"A">>, <<"a">>, <<"l","i","c","e","n","s","e","r","e","f","-","x">> }

NextCase ==
    \/ \E w \in CaseAtoms : AppendOperand(w)
    \/ \E o \in CaseOperators : AppendOperator(o)
    \/ Call_Expression_parse

SpecCase == Init /\ [][NextCase]_vars

\* the items with every operator spelled in upper case
UpperSpelled(items) ==
    [k \in 1..Len(items) |->
        IF items[k].k = "op" THEN Spaced(items[k].kw) ELSE items[k]]

\* C9: keywords are matched case-insensitively and nothing else is folded:
\* a text parses as the same text with its operators in upper case, while
\* an identifier is stored as written and a reference prefix in another
\* case is part of a plain identifier.
C9_KeywordCaseOnly ==
    pc = "returned" =>
        LET upper == Expression_parse(Text(UpperSpelled(draft[1]))) IN
        /\ result.kind = upper.kind
        /\ result.kind = "Ok" => result.tree = upper.tree
        /\ (Len(draft[1]) = 1 /\ draft[1][1].k = "atom") =>
               result = ParseOk(Simple(SimpleExpression(draft[1][1].w, None, FALSE)))

C9_Witness ==
    /\ pc = "returned"
    /\ Len(draft[1]) = 5
    /\ draft[1][2].w = <<" ", "a", "N", "d", " ">>
    /\ draft[1][4].w = <<" ", "w", "i", "t", "h", " ">>
    /\ draft[1][1].w # draft[1][3].w
    /\ result.kind = "Ok"
    /\ result.tree.t = "And"
    /\ result.tree.right.t = "With"

(***************************************************************************)
(* The leaves of a tree                                                     *)
(***************************************************************************)
RECURSIVE SimpleLeaves(_)
\* the SimpleExpression values of a tree, the licenses of its With nodes included
SimpleLeaves(tree) ==
    IF tree.t = "Simple" THEN {tree.simple}
    ELSE IF tree.t = "With" THEN {tree.license}
    ELSE IF tree.t = "Parens" THEN SimpleLeaves(tree.inner)
    ELSE SimpleLeaves(tree.left) \cup SimpleLeaves(tree.right)

\* the number of '+' in a text
PlusCount(w) == Cardinality({k \in 1..Len(w) : w[k] = "+"})

\* a document reference only on a license reference; a '+' only as the one
\* last character of an identifier that is not a license reference
WellFormedSimple(e) ==
    /\ e.document_ref # None => e.license_ref
    /\ e.license_ref => PlusCount(e.identifier) = 0
    /\ PlusCount(e.identifier) <= 1
    /\ PlusCount(e.identifier) = 1 => LastChar(e.identifier) = "+"

\* texts the grammar must reject: a '+' on a license reference, a second
\* '+', a document reference on a bare identifier
IllFormedAtoms ==
    { W_LicenseRef \o <<"A", "+">>,
      <<"A", "+", "+">>,
      W_DocumentRef \o <<"A", ":", "A">> }

\* well-formed and ill-formed atoms, joined by WITH and OR
NextForms ==
    \/ \E w \in AtomForms \cup IllFormedAtoms : AppendOperand(w)
    \/ \E o \in {Spaced("WITH"), Spaced("OR")} : AppendOperator(o)
    \/ Call_Expression_parse

SpecForms == Init /\ [][NextForms]_vars

\* C11: every SimpleExpression of a returned tree is well formed:
\* document_ref is Some only if license_ref is true, and identifier ends in
\* '+' only if license_ref is false, with at most one trailing '+'; the text
\* of an ill-formed atom is rejected.
C11_SimpleWellFormed ==
    pc = "returned" =>
        /\ result.kind = "Ok" => \A e \in SimpleLeaves(result.tree) : WellFormedSimple(e)
        /\ input \in IllFormedAtoms => result.kind = "Err"

C11_Witness ==
    /\ pc = "returned"
    /\ result.kind = "Ok"
    /\ result.tree.t = "Or"
    /\ result.tree.left.t = "With"
    /\ LastChar(result.tree.left.license.identifier) = "+"
    /\ result.tree.right.t = "Simple"
    /\ result.tree.right.simple.document_ref # None

(***************************************************************************)
(* Parenthesis pairs of the text and Parens nodes of the tree              *)
(***************************************************************************)
RECURSIVE ParensNodes(_)
\* the number of Parens nodes of a tree
ParensNodes(tree) ==
    IF tree.t \in {"Simple", "With"} THEN 0
    ELSE IF tree.t = "Parens" THEN 1 + ParensNodes(tree.inner)
    ELSE ParensNodes(tree.left) + ParensNodes(tree.right)

\* the number of opening parentheses of a text
OpenCount(w) == Cardinality({k \in 1..Len(w) : w[k] = "("})

RECURSIVE IsNest(_)
\* one atom inside any number of parenthesis pairs
IsNest(items) ==
    /\ Len(items) = 1
    /\ items[1].k = "group" => IsNest(items[1].items)

RECURSIVE NestTree(_)
\* the tree of a nest: one Parens node for each pair around the leaf
NestTree(items) ==
    IF items[1].k = "group" THEN Parens(NestTree(items[1].items))
    ELSE Simple(AtomNode(items[1].w))

\* C12: parentheses are never discarded: a returned tree has as many Parens
\* nodes as the text has parenthesis pairs, and an atom inside n pairs, also
\* redundant ones, is the leaf inside n Parens nodes.
C12_ParensKept ==
    pc = "returned" =>
        /\ result.kind = "Ok" => ParensNodes(result.tree) = OpenCount(input)
        /\ IsNest(draft[1]) => result = ParseOk(NestTree(draft[1]))

C12_Witness ==
    /\ pc = "returned"
    /\ OpenCount(input) = 2
    /\ IsNest(draft[1])
    /\ result.kind = "Ok"
    /\ result.tree.t = "Parens"
    /\ result.tree.inner.t = "Parens"
    /\ result.tree.inner.inner.t = "Simple"

(***************************************************************************)
(* Display (src/expression_variant.rs): the text of a tree                 *)
(***************************************************************************)
\* Display for SimpleExpression leaving the document reference out
SimpleExpression_fmt_local(e) ==
    (IF e.license_ref THEN W_LicenseRef ELSE <<>>) \o e.identifier

\* Display for SimpleExpression
SimpleExpression_fmt(e) ==
    (IF e.document_ref # None THEN W_DocumentRef \o e.document_ref[1] \o <<":">> ELSE <<>>)
    \o (IF e.license_ref THEN W_LicenseRef ELSE <<>>)
    \o e.identifier

\* Display for WithExpression
WithExpression_fmt(w) ==
    SimpleExpression_fmt(w.license) \o <<" ">> \o W_WITH \o <<" ">> \o w.exception

RECURSIVE ExpressionVariant_fmt_grouped(_)
\* Display for ExpressionVariant writing parentheses around each And and Or
ExpressionVariant_fmt_grouped(tree) ==
    IF tree.t = "Simple" THEN SimpleExpression_fmt(tree.simple)
    ELSE IF tree.t = "With" THEN WithExpression_fmt(tree)
    ELSE IF tree.t = "And"
    THEN <<"(">> \o ExpressionVariant_fmt_grouped(tree.left) \o <<" ">> \o W_AND \o <<" ">>
         \o ExpressionVariant_fmt_grouped(tree.right) \o <<")">>
    ELSE IF tree.t = "Or"
    THEN <<"(">> \o ExpressionVariant_fmt_grouped(tree.left) \o <<" ">> \o W_OR \o <<" ">>
         \o ExpressionVariant_fmt_grouped(tree.right) \o <<")">>
    ELSE <<"(">> \o ExpressionVariant_fmt_grouped(tree.inner) \o <<")">>

RECURSIVE ExpressionVariant_fmt(_)
\* Display for ExpressionVariant
ExpressionVariant_fmt(tree) ==
    IF tree.t = "Simple" THEN SimpleExpression_fmt(tree.simple)
    ELSE IF tree.t = "With" THEN WithExpression_fmt(tree)
    ELSE IF tree.t = "And"
    THEN ExpressionVariant_fmt(tree.left) \o <<" ">> \o W_AND \o <<" ">>
         \o ExpressionVariant_fmt(tree.right)
    ELSE IF tree.t = "Or"
    THEN ExpressionVariant_fmt(tree.left) \o <<" ">> \o W_OR \o <<" ">>
         \o ExpressionVariant_fmt(tree.right)
    ELSE <<"(">> \o ExpressionVariant_fmt(tree.inner) \o <<")">>

\* a tree and its text, after to_string()
Rendered(tree) == [kind |-> "Rendered", tree |-> tree, text |-> ExpressionVariant_fmt(tree)]

(***************************************************************************)
(* Trees built by a caller of the AST types, node by node                  *)
(***************************************************************************)
BuiltTree(tree) == [kind |-> "Tree", tree |-> tree]

RECURSIVE TreeSize(_)
\* the number of nodes of a tree
TreeSize(tree) ==
    IF tree.t \in {"Simple", "With"} THEN 1
    ELSE IF tree.t = "Parens" THEN 1 + TreeSize(tree.inner)
    ELSE 1 + TreeSize(tree.left) + TreeSize(tree.right)

MaxNodes == 6

\* leaves of every form of the fields, the ones no text parses to included
LeafNodes ==
    { Simple(SimpleExpression(<<"A">>, None, FALSE)),
      Simple(SimpleExpression(<<"x">>, None, TRUE)),
      Simple(SimpleExpression(<<"x">>, Some(<<"d">>), TRUE)),
      Simple(SimpleExpression(<<"A">>, Some(<<"d">>), FALSE)),
      With(SimpleExpression(<<"b", "+">>, None, FALSE), <<"e">>) }

\* ExpressionVariant::Simple(..) or ExpressionVariant::With(..)
Build_leaf(leaf) ==
    /\ pc = "compose"
    /\ result = NoResult
    /\ result' = BuiltTree(leaf)
    /\ UNCHANGED <<draft, pc>>

\* ExpressionVariant::Parens(Box::new(tree))
Build_Parens ==
    /\ pc = "compose"
    /\ result.kind = "Tree"
    /\ TreeSize(result.tree) < MaxNodes
    /\ result' = BuiltTree(Parens(result.tree))
    /\ UNCHANGED <<draft, pc>>

\* ExpressionVariant::And / Or of the tree and a leaf, on either side
Build_binary(leaf) ==
    /\ pc = "compose"
    /\ result.kind = "Tree"
    /\ TreeSize(result.tree) + 1 < MaxNodes
    /\ \E node \in { And(result.tree, leaf), And(leaf, result.tree),
                      Or(result.tree, leaf), Or(leaf, result.tree) } :
           result' = BuiltTree(node)
    /\ UNCHANGED <<draft, pc>>

\* to_string() of the built tree
Call_fmt ==
    /\ pc = "compose"
    /\ result.kind = "Tree"
    /\ pc' = "rendered"
    /\ result' = Rendered(result.tree)
    /\ UNCHANGED draft

NextDisplay ==
    \/ \E leaf \in LeafNodes : Build_leaf(leaf)
    \/ Build_Parens
    \/ \E leaf \in LeafNodes : Build_binary(leaf)
    \/ Call_fmt

SpecDisplay == Init /\ [][NextDisplay]_vars

(***************************************************************************)
(* The canonical text of a tree, word by word                               *)
(***************************************************************************)
\* [DocumentRef-<doc>:][LicenseRef-]<identifier>
SimpleWord(e) ==
    LET doc == IF e.document_ref = None THEN <<>>
               ELSE W_DocumentRef \o e.document_ref[1] \o <<":">>
        ref == IF e.license_ref THEN W_LicenseRef ELSE <<>>
    IN doc \o ref \o e.identifier

\* the words with '(' before the first and ')' after the last
Enclosed(words) ==
    [k \in 1..Len(words) |->
        (IF k = 1 THEN <<"(">> ELSE <<>>) \o words[k]
        \o (IF k = Len(words) THEN <<")">> ELSE <<>>)]

RECURSIVE Words(_)
\* the words of a tree from left to right, keywords in upper case
Words(tree) ==
    IF tree.t = "Simple" THEN <<SimpleWord(tree.simple)>>
    ELSE IF tree.t = "With" THEN <<SimpleWord(tree.license), W_WITH, tree.exception>>
    ELSE IF tree.t = "And" THEN Words(tree.left) \o <<W_AND>> \o Words(tree.right)
    ELSE IF tree.t = "Or" THEN Words(tree.left) \o <<W_OR>> \o Words(tree.right)
    ELSE Enclosed(Words(tree.inner))

RECURSIVE Joined(_)
\* the words with one space between neighbours
Joined(words) ==
    IF Len(words) = 1 THEN words[1]
    ELSE words[1] \o <<" ">> \o Joined(Tail(words))

\* C14: rendering is total and purely structural: the text of a tree is its
\* words in order with one space between them, a leaf being
\* [DocumentRef-<doc>:][LicenseRef-]<identifier>, the keywords WITH, AND, OR
\* in upper case, and one pair of parentheses for each Parens node and no other.
C14_DisplayStructural ==
    pc = "rendered" =>
        /\ result.text = Joined(Words(result.tree))
        /\ OpenCount(result.text) = ParensNodes(result.tree)

C14_Witness ==
    /\ pc = "rendered"
    /\ result.tree.t = "And"
    /\ result.tree.left.t = "Parens"
    /\ result.tree.left.inner.t = "Or"
    /\ result.tree.right.t = "Simple"
    /\ result.tree.right.simple.document_ref # None
    /\ result.tree.right.simple.license_ref

(***************************************************************************)
(* Parse, then render: texts in any keyword case and spacing               *)
(***************************************************************************)
\* to_string() of the tree that the parse returned
Call_to_string ==
    /\ pc = "returned"
    /\ result.kind = "Ok"
    /\ pc' = "rendered"
    /\ result' = Rendered(result.tree)
    /\ UNCHANGED draft

RoundTripAtoms == { <<"A">>, W_DocumentRef \o <<"d", ":">> \o W_LicenseRef \o <<"x">> }

\* keywords in upper, lower and mixed case, with one space, a tab or two
\* spaces beside them
RoundTripOperators ==
    { Operator("OR", <<" ", "o", "r", " ">>),
      Operator("WITH", <<" ", "w", "i", "T", "h", "\t">>),
      Operator("AND", <<" ", " ", "A", "N", "D", " ", " ">>) }

NextRoundTrip ==
    \/ \E w \in RoundTripAtoms : AppendOperand(w)
    \/ \E o \in RoundTripOperators : AppendOperator(o)
    \/ Open
    \/ \E pad \in Pads : Close(pad)
    \/ Call_Expression_parse
    \/ Call_to_string

SpecRoundTrip == Init /\ [][NextRoundTrip]_vars

\* the upper-case letter of each lower-case letter
Raised ==
    [c \in Range(LowerCase) |->
        UpperCase[CHOOSE k \in DOMAIN LowerCase : LowerCase[k] = c]]

\* a text with its letters in upper case
UpperText(w) == [k \in 1..Len(w) |-> IF w[k] \in DOMAIN Raised THEN Raised[w[k]] ELSE w[k]]

RECURSIVE Canonicalize(_)
\* the text of the items with the operator keywords in upper case and
\* nothing else changed
Canonicalize(items) ==
    IF items = <<>> THEN <<>>
    ELSE (IF Head(items).k = "group"
          THEN <<"(">> \o Head(items).pad \o Canonicalize(Head(items).items)
               \o Head(items).pad \o <<")">>
          ELSE IF Head(items).k = "op" THEN UpperText(Head(items).w)
          ELSE Head(items).w)
         \o Canonicalize(Tail(items))

RECURSIVE Normalized(_)
\* the text of the items with the operator keywords in upper case, one
\* space on each side of them and no other whitespace
Normalized(items) ==
    IF items = <<>> THEN <<>>
    ELSE (IF Head(items).k = "group"
          THEN <<"(">> \o Normalized(Head(items).items) \o <<")">>
          ELSE IF Head(items).k = "op"
          THEN <<" ">> \o Keyword(Head(items).kw) \o <<" ">>
          ELSE Head(items).w)
         \o Normalized(Tail(items))

\* C13 as stated: the rendered text of the parsed tree is the input with
\* nothing changed except the case of the operator keywords.
C13_RoundTripCaseOnly ==
    pc = "rendered" => result.text = Canonicalize(draft[1])

\* C13 amended: the rendered text of the parsed tree is the input with the
\* operator keywords in upper case, exactly one space on each side of each
\* keyword and no other whitespace; atoms and parentheses are kept.
C13_RoundTrip ==
    pc = "rendered" => result.text = Normalized(draft[1])

C13_Witness ==
    /\ pc = "rendered"
    /\ Len(draft[1]) = 3
    /\ draft[1][1].k = "group"
    /\ draft[1][1].pad = <<" ">>
    /\ draft[1][2].w = <<" ", "o", "r", " ">>
    /\ result.text = <<"(", "A", ")", " ", "O", "R", " ", "A">>

(***************************************************************************)
(* The exported SPDXExpression: parse, then to_string() or licenses()      *)
(***************************************************************************)
\* Display for SPDXExpression
SPDXExpression_fmt(x) == x.expression_string

\* to_string() of the SPDXExpression that the parse returned
Call_SPDXExpression_to_string ==
    /\ pc = "returned"
    /\ result.kind = "Ok"
    /\ pc' = "shown"
    /\ result' = [kind |-> "String", of |-> result, text |-> SPDXExpression_fmt(result)]
    /\ UNCHANGED draft

\* u8::is_ascii_whitespace, the separator of str::split_ascii_whitespace
is_ascii_whitespace(c) == c \in {" ", "\t", "\n", "\f", "\r"}

RECURSIVE split_ascii_whitespace(_, _, _, _)
\* the non-empty runs of non-whitespace characters of s from index i on;
\* tok is the run being read and acc the runs already finished
split_ascii_whitespace(s, i, tok, acc) ==
    IF i > Len(s) THEN (IF tok = <<>> THEN acc ELSE Append(acc, tok))
    ELSE IF is_ascii_whitespace(s[i])
         THEN split_ascii_whitespace(s, i + 1, <<>>,
                                     IF tok = <<>> THEN acc ELSE Append(acc, tok))
         ELSE split_ascii_whitespace(s, i + 1, Append(tok, s[i]), acc)

\* str::replace(pat, "") for a one-character pattern
replace(tok, pat) == SelectSeq(tok, LAMBDA c : c # pat)

\* the printable ASCII characters in the order of their byte values, from 32
\* (the grave accent, byte 96, has no spelling in a string here and is
\* held by a placeholder that equals no character)
Ascii ==
    << " ", "!", "\"", "#", "$", "%", "&", "'", "(", ")", "*", "+", ",", "-", ".", "/",
       "0", "1", "2", "3", "4", "5", "6", "7", "8", "9", ":", ";", "<", "=", ">", "?",
       "@", "A", "B", "C", "D", "E", "F", "G", "H", "I", "J", "K", "L", "M", "N", "O",
       "P", "Q", "R", "S", "T", "U", "V", "W", "X", "Y", "Z", "[", "\\", "]", "^", "_",
       "0x60", "a", "b", "c", "d", "e", "f", "g", "h", "i", "j", "k", "l", "m", "n", "o",
       "p", "q", "r", "s", "t", "u", "v", "w", "x", "y", "z", "{", "|", "}", "~" >>

Byte(c) == 31 + CHOOSE n \in 1..Len(Ascii) : Ascii[n] = c

RECURSIVE Less(_, _)
\* Ord for String: byte-wise lexicographic, a proper prefix first
Less(a, b) ==
    IF b = <<>> THEN FALSE
    ELSE IF a = <<>> THEN TRUE
    ELSE IF Head(a) = Head(b) THEN Less(Tail(a), Tail(b))
    ELSE Byte(Head(a)) < Byte(Head(b))

RECURSIVE Inserted(_, _)
Inserted(sorted, tok) ==
    IF sorted = <<>> THEN <<tok>>
    ELSE IF Less(tok, Head(sorted)) THEN <<tok>> \o sorted
    ELSE <<Head(sorted)>> \o Inserted(Tail(sorted), tok)

RECURSIVE sort_unstable(_)
\* the ascending arrangement of the vector (equal strings are identical, so
\* the instability of the sort cannot show)
sort_unstable(v) ==
    IF v = <<>> THEN <<>> ELSE Inserted(sort_unstable(Tail(v)), Head(v))

RECURSIVE dedup(_)
\* Vec::dedup: of each run of equal consecutive elements the first is kept
dedup(v) ==
    IF Len(v) < 2 THEN v
    ELSE IF v[1] = v[2] THEN dedup(Tail(v))
    ELSE <<v[1]>> \o dedup(Tail(v))

licenses_tokens(x) ==
    SelectSeq(split_ascii_whitespace(x.expression_string, 1, <<>>, <<>>),
              LAMBDA tok : /\ tok # <<"O", "R">>
                           /\ tok # <<"A", "N", "D">>
                           /\ tok # <<"W", "I", "T", "H">>)

licenses_stripped(x) ==
    [n \in 1..Len(licenses_tokens(x)) |->
        replace(replace(licenses_tokens(x)[n], "("), ")")]

licenses_with_duplicates(x) == sort_unstable(licenses_stripped(x))

\* SPDXExpression::licenses
licenses(x) == dedup(sort_unstable(licenses_stripped(x)))

\* licenses() of the SPDXExpression that the parse returned
Call_licenses ==
    /\ pc = "returned"
    /\ result.kind = "Ok"
    /\ pc' = "listed"
    /\ result' = [kind |-> "Licenses", of |-> result, licenses |-> licenses(result)]
    /\ UNCHANGED draft

FacadeAtoms == { <<"B">>, <<"A">> }

\* keywords in the two cases the older grammar takes, one space on each side
FacadeOperators ==
    { Spaced("OR"), Spaced("AND"), Spaced("WITH"),
      Operator("OR", <<" ", "o", "r", " ">>) }

NextFacadeText ==
    \/ \E w \in FacadeAtoms : AppendOperand(w)
    \/ \E o \in FacadeOperators : AppendOperator(o)
    \/ Open
    \/ Close(<<>>)
    \/ Call_SPDXExpression_parse
    \/ Call_SPDXExpression_to_string
    \/ Call_licenses

SpecFacadeText == Init /\ [][NextFacadeText]_vars

\* C15: to_string() of a parsed SPDXExpression gives the canonical form:
\* the operator keywords in upper case whatever their case in the input,
\* and a canonical input unchanged.
C15_FacadeCanonical ==
    pc = "shown" => result.text = Canonicalize(draft[1])

\* C16: licenses() of a parsed SPDXExpression is strictly ascending in
\* byte-wise lexicographic order, hence sorted and without duplicates.
C16_LicensesAscending ==
    pc = "listed" =>
        \A n \in 1..(Len(result.licenses) - 1) :
            Less(result.licenses[n], result.licenses[n + 1])

\* licenses() was called on a text that names B, then A, then B again
C16_Witness ==
    /\ pc = "listed"
    /\ Len(draft[1]) >= 5
    /\ draft[1][1] = Atom(<<"B">>)
    /\ draft[1][3] = Atom(<<"A">>)
    /\ draft[1][5] = Atom(<<"B">>)
    /\ result.licenses = << <<"A">>, <<"B">> >>

RECURSIVE WalkedNames(_)
\* the names a walk of the facade's tree collects: every license atom with
\* its qualification and every WITH exception
WalkedNames(tree) ==
    IF tree.t = "Simple" THEN { SimpleWord(tree.simple) }
    ELSE IF tree.t = "With" THEN { SimpleWord(tree.license), tree.exception }
    ELSE WalkedNames(tree.left) \cup WalkedNames(tree.right)

\* C17: licenses(), computed from the tokens of the text, holds exactly the
\* names a walk of the parsed tree collects: the license atoms and the WITH
\* exceptions, and so no operator keyword and no parenthesis.
C17_TokensAreTreeNames ==
    pc = "listed" =>
        { result.licenses[n] : n \in 1..Len(result.licenses) }
            = WalkedNames(result.of.inner)

\* DocumentRef-<id> and nothing more: no ':' follows the document id
DocumentRefOnly(w) ==
    /\ HasPrefix(w, W_DocumentRef)
    /\ IdText(SubSeq(w, Len(W_DocumentRef) + 1, Len(w)), 0)

\* C18: document_ref and license_ref either match or report a recoverable
\* mismatch, also on 'DocumentRef-<id>' at the end of the input, so that the
\* text is read as a bare identifier: alone it parses to a plain leaf, and
\* before WITH to the license of a With.
C18_RecoverableMismatch ==
    pc = "returned" =>
        /\ document_ref(input, 1).kind \in {"Ok", "Error"}
        /\ license_ref(input, 1).kind \in {"Ok", "Error"}
        /\ (Len(draft[1]) = 1 /\ DocumentRefOnly(draft[1][1].w))
           => result = ParseOk(Simple(SimpleExpression(draft[1][1].w, None, FALSE)))
        /\ (/\ Len(draft[1]) = 3
            /\ draft[1][2] = Spaced("WITH")
            /\ DocumentRefOnly(draft[1][1].w)
            /\ draft[1][3].w = <<"A">>)
           => result = ParseOk(With(SimpleExpression(draft[1][1].w, None, FALSE),
                                    draft[1][3].w))

RECURSIVE Nesting(_)
\* the And/Or/With nesting of a tree of either grammar: Parens wrappers are
\* dropped and a Compound node is named by its operator
Nesting(tree) ==
    IF tree.t = "Parens" THEN Nesting(tree.inner)
    ELSE IF tree.t = "Compound"
    THEN [t |-> tree.operator, left |-> Nesting(tree.left), right |-> Nesting(tree.right)]
    ELSE IF tree.t \in {"And", "Or"}
    THEN [t |-> tree.t, left |-> Nesting(tree.left), right |-> Nesting(tree.right)]
    ELSE tree

\* C19: on every text that both SPDXExpression::parse and Expression::parse
\* accept, the two trees have the same And/Or/With nesting, Parens wrappers
\* set aside.
C19_GrammarsAgree ==
    (pc = "returned" /\ result.kind = "Ok" /\ Expression_parse(input).kind = "Ok")
        => Nesting(result.inner) = Nesting(Expression_parse(input).tree)

(***************************************************************************)
(* Parse, render, and parse the rendered text again                        *)
(***************************************************************************)
\* the outcome again of the second parse next to the tree and text it came
\* from, and the text the second tree renders to
Reparsed(tree, text, again) ==
    [kind |-> "Reparsed", tree |-> tree, text |-> text, again |-> again,
     again_text |-> IF again.kind = "Ok" THEN ExpressionVariant_fmt(again.tree) ELSE None]

\* Expression::parse on the text that to_string() gave, then to_string() on
\* its tree
Call_Expression_parse_rendered ==
    /\ pc = "rendered"
    /\ pc' = "reparsed"
    /\ result' = Reparsed(result.tree, result.text, Expression_parse(result.text))
    /\ UNCHANGED draft

StabilityAtoms == { <<"A">>, W_DocumentRef \o <<"d">> }

StabilityOperators == { Spaced("AND"), Operator("OR", <<" ", "o", "r", " ">>) }

NextStability ==
    \/ \E w \in StabilityAtoms : AppendOperand(w)
    \/ \E o \in StabilityOperators : AppendOperator(o)
    \/ AppendRaw(<<" ">>)
    \/ Call_Expression_parse
    \/ Call_to_string
    \/ Call_Expression_parse_rendered

SpecStability == Init /\ [][NextStability]_vars

\* C20: when Expression::parse returns Ok(t), parsing the rendered text of t
\* returns Ok with a tree equal to t, and that tree renders to the same text.
C20_ParseRenderStable ==
    pc = "reparsed" =>
        /\ result.again = ParseOk(result.tree)
        /\ result.again_text = result.text

RECURSIVE ShapeOk(_)
\* the shape of a tree, at every node and inside every Parens: the right
\* child of an And is a Simple, With or Parens, the left child of an And is
\* no Or, and the right child of an Or is no Or
ShapeOk(tree) ==
    IF tree.t = "And"
    THEN /\ tree.right.t \in {"Simple", "With", "Parens"}
         /\ tree.left.t # "Or"
         /\ ShapeOk(tree.left)
         /\ ShapeOk(tree.right)
    ELSE IF tree.t = "Or"
    THEN /\ tree.right.t # "Or"
         /\ ShapeOk(tree.left)
         /\ ShapeOk(tree.right)
    ELSE IF tree.t = "Parens" THEN ShapeOk(tree.inner)
    ELSE TRUE

\* C21: in every tree Expression::parse returns, the right child of an And
\* is a Simple, With or Parens, the left child of an And is never an Or and
\* the right child of an Or is never an Or; an Or below an And, or a same
\* operator as right operand, stands only inside a Parens.
C21_TreeShape ==
    (pc = "returned" /\ result.kind = "Ok") => ShapeOk(result.tree)

\* a returned tree with an Or below an And, inside a Parens: 'A AND (A OR A)'
\* and the like
C21_Witness ==
    /\ pc = "returned"
    /\ result.kind = "Ok"
    /\ result.tree.t = "And"
    /\ result.tree.right.t = "Parens"
    /\ result.tree.right.inner.t = "Or"

====
